---- MODULE Spec2Model ----
(***************************************************************************)
(* Model of the in-memory store MemStorage (server/storage.ts) of          *)
(* chittyforge: users with a trust score and level, verification methods,  *)
(* the badge catalog, user badges, the activity log, social endorsements,  *)
(* blockchain verifications, biometric records and identity shares, and of *)
(* the routes of server/routes.ts that answer from it.                     *)
(*                                                                         *)
(* Every Map<string, T> of the class is a sequence in insertion order; the *)
(* key of an entry (a fresh randomUUID in the code) is its index.          *)
(*                                                                         *)
(* now is the clock new Date() and Date.now() read, in days since the      *)
(* constructor ran. calls holds the calls in flight that are followed from *)
(* one await to the next; lastOp is the call that was made last, with its  *)
(* arguments and its result.                                               *)
(***************************************************************************)
EXTENDS Integers, Sequences, FiniteSets, TLC

VARIABLES users, verificationMethods, badges, userBadges, activityLogs,
          socialEndorsements, blockchainVerifications, biometricData, lastOp,
          identityShares, now, calls

vars == <<users, verificationMethods, badges, userBadges, activityLogs,
          socialEndorsements, blockchainVerifications, biometricData, lastOp,
          identityShares, now, calls>>

(***************************************************************************)
(* Bounds of the exploration.                                              *)
(***************************************************************************)
MaxUsers == 2

MaxLogs == 8

MaxEndorsements == 6

MaxTrustLogs == 12

MaxShares == 2

MaxNow == 2

MaxQueryLogs == 12

MaxHttpLogs == 9

MaxAutoLogs == 15

MaxPutLogs == 9

(***************************************************************************)
(* Values.                                                                 *)
(***************************************************************************)
NULL == "null"

\* an id that is the key of no user: users.get(id) is undefined
GhostUserId == 0

\* an id that is the key of no verification method
UnknownVerificationId == 0

\* result of Array.find when no badge matches
NoBadge == 0

\* data.trustWeight absent (undefined)
NoWeight == -1

DemoUserId == 1

Min(a, b) == IF a <= b THEN a ELSE b

\* an optional value (expiresInDays?, expiresAt: Date | null, the result of
\* Array.find): absent, or present with its value
Absent == << >>

Present(v) == << v >>

\* getActivityLogs called without a limit
NoLimit == -1

\* a share token no share carries
UnknownToken == 0

\* what a call holds after getUser found no user
NoScore == -1

\* the calls followed from await to await, and a slot with no call in it
Slots == {"first", "second"}

NoCall == [op |-> "none", pc |-> "none", id |-> 0, username |-> "",
           trustWeight |-> 0, read |-> 0, ret |-> ""]

(***************************************************************************)
(* Input domains of the operations.                                        *)
(***************************************************************************)
Statuses == {"pending", "in_review", "completed", "failed"}

\* the statuses an update is called with
StatusInputs == {"completed", "failed"}

TypeInputs == {"biometric", "government_id", "document_attestation"}

UsernameInputs == {"alex.rodriguez.verified", "bob"}

TrustWeightInputs == {NoWeight, 0, 5}

\* the data of a verification: null, the seeded data, what the blockchain
\* and biometric records pass, and the data of an update
DataValues == {NULL, "seeded", "walletAddress, chainId", "type, provider", "evidence"}

\* the password a client registers and logs in with
PasswordInputs == {"secret", "demo123"}

\* simpleHash: Buffer.from(password).toString('base64')
simpleHash(password) ==
    CASE password = "secret" -> "c2VjcmV0"
      [] password = "demo123" -> "ZGVtbzEyMw=="
      [] OTHER -> ""

\* generateChittyId: values of the form 25-P-USR-XXXX-V-MM-D-L that the
\* generator returns in September, XXXX being four characters of 0-9A-Z, D a
\* digit and L a letter, all drawn with Math.random()
generateChittyId == {"25-P-USR-DEMO-V-08-7-K", "25-P-USR-7K2Q-V-08-3-B"}

\* the catalog with an eleventh badge, for the requirement early_adopter
BadgeRequirementsEarlyAdopter ==
    << "domain_ownership", "bank_verified", "behavioral_pattern", "multi_source",
       "biometric_unique", "address_verified", "social_validated",
       "professional_network", "document_attestation", "social_network_validation",
       "early_adopter" >>

(***************************************************************************)
(* The badge catalog built by initializeBadges: the requirement key of     *)
(* each of the ten badges, in the order of insertion.                      *)
(***************************************************************************)
BadgeRequirements ==
    << "domain_ownership", "bank_verified", "behavioral_pattern", "multi_source",
       "biometric_unique", "address_verified", "social_validated",
       "professional_network", "document_attestation", "social_network_validation" >>

initializeBadges ==
    [i \in 1..Len(BadgeRequirements) |-> [id |-> i, requirement |-> BadgeRequirements[i]]]

\* Array.from(this.badges.values()).find(b => b.requirement === requirement)
FindBadge(catalog, requirement) ==
    IF \E i \in DOMAIN catalog : catalog[i].requirement = requirement
    THEN CHOOSE i \in DOMAIN catalog :
            /\ catalog[i].requirement = requirement
            /\ \A j \in DOMAIN catalog : catalog[j].requirement = requirement => i <= j
    ELSE NoBadge

\* Array.from(this.badges.values()): the catalog in insertion order
getAllBadges(catalog) == [i \in 1..Len(catalog) |-> catalog[i]]

\* ids of the badges awardBadge is called with directly
BadgeIdInputs == {FindBadge(initializeBadges, "domain_ownership"),
                  FindBadge(initializeBadges, "professional_network")}

(***************************************************************************)
(* initializeDemoUser: the seeded user, its three stored verifications,    *)
(* the badges awarded for them and six activity log entries.               *)
(***************************************************************************)
DemoChittyId == "25-P-USR-DEMO-V-08-7-K"

DemoUser ==
    [id |-> DemoUserId, username |-> "alex.rodriguez.verified",
     password |-> "demo123", chittyId |-> DemoChittyId,
     trustLevel |-> 4, trustScore |-> 850]

DemoVerifications ==
    << [userId |-> DemoUserId, type |-> "professional_network",
        data |-> "seeded",
        status |-> "completed", completedAt |-> "seeded", createdAt |-> -95],
       [userId |-> DemoUserId, type |-> "document_attestation",
        data |-> "seeded",
        status |-> "completed", completedAt |-> "seeded", createdAt |-> -65],
       [userId |-> DemoUserId, type |-> "social_network_validation",
        data |-> "seeded",
        status |-> "completed", completedAt |-> "seeded", createdAt |-> -35] >>

DemoBadgeRequirements ==
    << "professional_network", "document_attestation", "social_network_validation" >>

DemoUserBadges ==
    LET found == SelectSeq(DemoBadgeRequirements,
                           LAMBDA r : FindBadge(initializeBadges, r) # NoBadge)
    IN  [i \in 1..Len(found) |->
            [userId |-> DemoUserId, badgeId |-> FindBadge(initializeBadges, found[i])]]

\* the seeded badge_earned entries carry a badge name and no badgeId;
\* createdAt is now - (activities.length - index) * 5 days
DemoActivities ==
    << [userId |-> DemoUserId, action |-> "account_created",
        meta |-> DemoChittyId, createdAt |-> -30],
       [userId |-> DemoUserId, action |-> "verification_completed",
        meta |-> "email", createdAt |-> -25],
       [userId |-> DemoUserId, action |-> "badge_earned",
        meta |-> NoBadge, createdAt |-> -20],
       [userId |-> DemoUserId, action |-> "verification_completed",
        meta |-> "phone", createdAt |-> -15],
       [userId |-> DemoUserId, action |-> "badge_earned",
        meta |-> NoBadge, createdAt |-> -10],
       [userId |-> DemoUserId, action |-> "verification_started",
        meta |-> "government_id", createdAt |-> -5] >>

Init ==
    /\ users = << DemoUser >>
    /\ verificationMethods = DemoVerifications
    /\ badges = initializeBadges
    /\ userBadges = DemoUserBadges
    /\ activityLogs = DemoActivities
    /\ socialEndorsements = << >>
    /\ blockchainVerifications = << >>
    /\ biometricData = << >>
    /\ identityShares = << >>
    /\ now = 0
    /\ calls = [s \in Slots |-> NoCall]
    /\ lastOp = [op |-> "constructor"]

\* the shape of the maps of MemStorage
TypeOK ==
    /\ \A i \in DOMAIN users :
          /\ users[i].id = i
          /\ users[i].username \in UsernameInputs
          /\ users[i].trustScore \in Int
          /\ users[i].trustLevel \in Int
          /\ users[i].chittyId \in generateChittyId
          /\ users[i].password \in {"demo123"} \cup {simpleHash(p) : p \in PasswordInputs}
    /\ \A i \in DOMAIN verificationMethods :
          /\ verificationMethods[i].userId \in Int
          /\ verificationMethods[i].status \in Statuses
          /\ verificationMethods[i].completedAt \in {NULL, "seeded", "now"}
          /\ verificationMethods[i].data \in DataValues
          /\ verificationMethods[i].createdAt \in Int
    /\ badges = initializeBadges
    /\ \A i \in DOMAIN userBadges :
          userBadges[i].userId \in Int /\ userBadges[i].badgeId \in Int
    /\ \A i \in DOMAIN activityLogs :
          /\ activityLogs[i].userId \in Int
          /\ activityLogs[i].action \in
                {"account_created", "verification_started", "verification_completed",
                 "badge_earned", "endorsement_received", "identity_shared"}
          /\ activityLogs[i].createdAt \in Int
    /\ \A i \in DOMAIN socialEndorsements :
          socialEndorsements[i].endorsedId \in Int /\ socialEndorsements[i].trustWeight \in Int
    /\ \A i \in DOMAIN blockchainVerifications :
          blockchainVerifications[i].verified \in BOOLEAN
    /\ \A i \in DOMAIN biometricData : biometricData[i].verified \in BOOLEAN
    /\ \A i \in DOMAIN identityShares :
          /\ identityShares[i].userId \in Int
          /\ identityShares[i].shareToken = i
          /\ identityShares[i].isPublic \in BOOLEAN
          /\ Len(identityShares[i].expiresAt) <= 1
          /\ \A k \in DOMAIN identityShares[i].expiresAt :
                identityShares[i].expiresAt[k] \in Int
          /\ identityShares[i].createdAt \in Int
    /\ now \in Nat
    /\ DOMAIN calls = Slots

(***************************************************************************)
(* Storage helpers, as functions of the maps they read and write, so that  *)
(* a handler that calls another handler composes them.                     *)
(***************************************************************************)
\* getUser(id) finds a user: this.users.get(id) is not undefined
hasUser(us, id) == id \in DOMAIN us

\* a log that keeps its length by dropping its oldest entry
createActivityLogRotating(logs, userId, action, meta) ==
    Append(Tail(logs), [userId |-> userId, action |-> action, meta |-> meta,
                  createdAt |-> now])

\* createActivityLog: one entry appended; meta is the metadata field the
\* entry is later told apart by (badgeId, verificationType, ...)
createActivityLog(logs, userId, action, meta) ==
    Append(logs, [userId |-> userId, action |-> action, meta |-> meta,
                  createdAt |-> now])

\* awardBadge without the "already awarded" check
ExistingUserBadgeNever(ub, userId, badgeId) == 0

\* awardBadge, the lookup: index of the UserBadge of the pair, 0 if none
ExistingUserBadge(ub, userId, badgeId) ==
    IF \E i \in DOMAIN ub : ub[i].userId = userId /\ ub[i].badgeId = badgeId
    THEN CHOOSE i \in DOMAIN ub :
            /\ ub[i].userId = userId /\ ub[i].badgeId = badgeId
            /\ \A j \in DOMAIN ub :
                  (ub[j].userId = userId /\ ub[j].badgeId = badgeId) => i <= j
    ELSE 0

\* awardBadge, the userBadges map afterwards
awardBadgeUB(ub, userId, badgeId) ==
    IF ExistingUserBadge(ub, userId, badgeId) # 0 THEN ub
    ELSE Append(ub, [userId |-> userId, badgeId |-> badgeId])

\* awardBadge logging badge_earned before the "already awarded" check
awardBadgeLogsAlways(ub, logs, userId, badgeId) ==
    Append(logs, [userId |-> userId, action |-> "badge_earned", meta |-> badgeId,
                  createdAt |-> now])

\* awardBadge, the activity log afterwards (ub is the map before the call)
awardBadgeLogs(ub, logs, userId, badgeId) ==
    IF ExistingUserBadge(ub, userId, badgeId) # 0 THEN logs
    ELSE createActivityLog(logs, userId, "badge_earned", badgeId)

\* awardBadge, the returned record's key
awardBadgeRet(ub, userId, badgeId) ==
    IF ExistingUserBadge(ub, userId, badgeId) # 0
    THEN ExistingUserBadge(ub, userId, badgeId)
    ELSE Len(ub) + 1

\* "find the badge of this requirement and, if there is one, award it"
awardByRequirementUB(ub, userId, requirement) ==
    IF FindBadge(badges, requirement) # NoBadge
    THEN awardBadgeUB(ub, userId, FindBadge(badges, requirement))
    ELSE ub

awardByRequirementLogs(ub, logs, userId, requirement) ==
    IF FindBadge(badges, requirement) # NoBadge
    THEN awardBadgeLogs(ub, logs, userId, FindBadge(badges, requirement))
    ELSE logs

(***************************************************************************)
(* Trust scoring (handleVerificationCompletion, lines 869-881).            *)
(***************************************************************************)
MaxTrustScore == 1000

MaxTrustLevel == 5

LevelStep == 200

NewUserTrustScore == 100

NewUserTrustLevel == 1

\* the increase with document_attestation scored like government_id
scoreIncreaseDocumentClass(type) ==
    IF type = "biometric" THEN 100
    ELSE IF type \in {"government_id", "document_attestation"} THEN 80 ELSE 50

\* const scoreIncrease = type === "biometric" ? 100 : type === "government_id" ? 80 : 50
scoreIncrease(type) ==
    IF type = "biometric" THEN 100 ELSE IF type = "government_id" THEN 80 ELSE 50

\* Math.min(1000, currentScore + scoreIncrease)
newScore(currentScore, type) == Min(MaxTrustScore, currentScore + scoreIncrease(type))

\* the level without Math.min(5, ...)
newLevelUncapped(score) == (score \div 200) + 1

\* Math.min(5, Math.floor(newScore / 200) + 1)
newLevel(score) == Min(MaxTrustLevel, (score \div LevelStep) + 1)

\* the table with government_id mapped to a requirement of the catalog
badgeMapDomain(type) ==
    CASE type = "email" -> "email_verified"
      [] type = "phone" -> "phone_verified"
      [] type = "government_id" -> "domain_ownership"
      [] type = "biometric" -> "biometric_verified"
      [] OTHER -> ""

\* the badgeMap lookup table; "" when the type has no entry
badgeMap(type) ==
    CASE type = "email" -> "email_verified"
      [] type = "phone" -> "phone_verified"
      [] type = "government_id" -> "government_id_verified"
      [] type = "biometric" -> "biometric_verified"
      [] OTHER -> ""

\* handleVerificationCompletion, the userBadges map afterwards
completionUB(ub, userId, type) ==
    IF badgeMap(type) # "" THEN awardByRequirementUB(ub, userId, badgeMap(type)) ELSE ub

\* handleVerificationCompletion, the users map afterwards
completionUsers(us, userId, type) ==
    IF hasUser(us, userId)
    THEN [us EXCEPT ![userId].trustScore = newScore(us[userId].trustScore, type),
                    ![userId].trustLevel = newLevel(newScore(us[userId].trustScore, type))]
    ELSE us

\* handleVerificationCompletion, the activity log afterwards: the entry of
\* an award, if any, then verification_completed
completionLogs(ub, logs, userId, type) ==
    createActivityLog(
        IF badgeMap(type) # "" THEN awardByRequirementLogs(ub, logs, userId, badgeMap(type))
        ELSE logs,
        userId, "verification_completed", type)

\* createVerificationMethod storing the method as in_review
createVerificationVMInReview(vms, userId, type, data) ==
    Append(vms, [userId |-> userId, type |-> type, data |-> data, status |-> "in_review",
                 completedAt |-> NULL, createdAt |-> now])

\* createVerificationMethod, the verificationMethods map afterwards; data is
\* verification.data || null
createVerificationVM(vms, userId, type, data) ==
    Append(vms, [userId |-> userId, type |-> type, data |-> data, status |-> "pending",
                 completedAt |-> NULL, createdAt |-> now])

\* { ...method, ...updates }
spread(method, updates) ==
    [f \in DOMAIN method \cup DOMAIN updates |->
        IF f \in DOMAIN updates THEN updates[f] ELSE method[f]]

\* updateVerificationMethod, the method stored: the spread, with completedAt
\* assigned when updates.status === "completed"
updatedMethod(method, updates) ==
    IF updates.status = "completed"
    THEN [spread(method, updates) EXCEPT !.completedAt = "now"]
    ELSE spread(method, updates)

(***************************************************************************)
(* The operations of MemStorage.                                           *)
(***************************************************************************)
\* createUser, all that it stores
insertUser(username, password) ==
    \E chittyId \in generateChittyId :
       /\ users' = Append(users, [id |-> Len(users) + 1, username |-> username,
                                  password |-> password, chittyId |-> chittyId,
                                  trustLevel |-> NewUserTrustLevel,
                                  trustScore |-> NewUserTrustScore])
       /\ userBadges' = awardByRequirementUB(userBadges, Len(users) + 1, "early_adopter")
       /\ activityLogs' = createActivityLog(
                             awardByRequirementLogs(userBadges, activityLogs,
                                                    Len(users) + 1, "early_adopter"),
                             Len(users) + 1, "account_created", chittyId)
       /\ UNCHANGED <<identityShares, now>>
       /\ UNCHANGED <<verificationMethods, badges, socialEndorsements,
                      blockchainVerifications, biometricData>>

createUser(username, password) ==
    /\ insertUser(username, password)
    /\ lastOp' = [op |-> "createUser", ret |-> Len(users) + 1]

createVerificationMethod(userId, type) ==
    /\ verificationMethods' = createVerificationVM(verificationMethods, userId, type, NULL)
    /\ activityLogs' = createActivityLog(activityLogs, userId, "verification_started", type)
    /\ lastOp' = [op |-> "createVerificationMethod", userId |-> userId,
                  ret |-> Len(verificationMethods) + 1]
    /\ UNCHANGED <<identityShares, now>>
    /\ UNCHANGED <<users, badges, userBadges, socialEndorsements,
                   blockchainVerifications, biometricData>>

\* the update storing {...undefined, ...updates} under an unknown id
updateMissingInserts(id, status) ==
    /\ verificationMethods' =
          Append(verificationMethods,
                 [userId |-> GhostUserId, type |-> "", data |-> NULL, status |-> status,
                  completedAt |-> NULL, createdAt |-> now])
    /\ lastOp' = [op |-> "updateVerificationMethod", id |-> id, status |-> status,
                  ret |-> "ok", currentScore |-> 0]
    /\ UNCHANGED <<identityShares, now>>
    /\ UNCHANGED <<users, badges, userBadges, activityLogs,
                   socialEndorsements, blockchainVerifications, biometricData>>

\* if (!method) throw new Error("Verification method not found")
updateMissing(id, status) ==
    /\ lastOp' = [op |-> "updateVerificationMethod", id |-> id, status |-> status,
                  ret |-> "Verification method not found", currentScore |-> 0]
    /\ UNCHANGED <<identityShares, now>>
    /\ UNCHANGED <<users, verificationMethods, badges, userBadges, activityLogs,
                   socialEndorsements, blockchainVerifications, biometricData>>

\* updates is a record with the key status and any other keys
updateVerificationMethod(id, updates) ==
    IF id \notin DOMAIN verificationMethods
    THEN updateMissing(id, updates.status)
    ELSE LET method == verificationMethods[id] IN
         /\ verificationMethods' =
               [verificationMethods EXCEPT ![id] = updatedMethod(method, updates)]
         /\ IF updates.status = "completed"
            THEN /\ userBadges' = completionUB(userBadges, method.userId, method.type)
                 /\ users' = completionUsers(users, method.userId, method.type)
                 /\ activityLogs' = completionLogs(userBadges, activityLogs,
                                                   method.userId, method.type)
            ELSE UNCHANGED <<users, userBadges, activityLogs>>
         /\ lastOp' = [op |-> "updateVerificationMethod", id |-> id,
                       status |-> updates.status, ret |-> "ok",
                       currentScore |-> IF hasUser(users, method.userId)
                                        THEN users[method.userId].trustScore ELSE 0]
         /\ UNCHANGED <<identityShares, now>>
         /\ UNCHANGED <<badges, socialEndorsements, blockchainVerifications, biometricData>>

\* variant: awarding also mints a copy of the badge into the catalog
awardBadgeMinting(userId, badgeId) ==
    /\ userBadges' = awardBadgeUB(userBadges, userId, badgeId)
    /\ activityLogs' = awardBadgeLogs(userBadges, activityLogs, userId, badgeId)
    /\ lastOp' = [op |-> "awardBadge", userId |-> userId, badgeId |-> badgeId,
                  existing |-> ExistingUserBadge(userBadges, userId, badgeId) # 0,
                  ret |-> awardBadgeRet(userBadges, userId, badgeId)]
    /\ badges' = IF badgeId \in DOMAIN badges
                    THEN Append(badges, [id |-> Len(badges) + 1,
                                         requirement |-> badges[badgeId].requirement])
                    ELSE badges
    /\ UNCHANGED <<identityShares, now>>
    /\ UNCHANGED <<users, verificationMethods, socialEndorsements,
                   blockchainVerifications, biometricData>>

awardBadge(userId, badgeId) ==
    /\ userBadges' = awardBadgeUB(userBadges, userId, badgeId)
    /\ activityLogs' = awardBadgeLogs(userBadges, activityLogs, userId, badgeId)
    /\ lastOp' = [op |-> "awardBadge", userId |-> userId, badgeId |-> badgeId,
                  existing |-> ExistingUserBadge(userBadges, userId, badgeId) # 0,
                  ret |-> awardBadgeRet(userBadges, userId, badgeId)]
    /\ UNCHANGED <<identityShares, now>>
    /\ UNCHANGED <<users, verificationMethods, badges, socialEndorsements,
                   blockchainVerifications, biometricData>>

\* (data.trustWeight || 1) * 10
endorsementIncrease(trustWeight) ==
    (IF trustWeight = NoWeight \/ trustWeight = 0 THEN 1 ELSE trustWeight) * 10

\* getEndorsementsFor(userId).length
endorsementsFor(ses, userId) ==
    Cardinality({i \in DOMAIN ses : ses[i].endorsedId = userId})

SocialBadgeThreshold == 5

createEndorsement(endorserId, endorsedId, trustWeight) ==
    LET ses == Append(socialEndorsements,
                      [endorserId |-> endorserId, endorsedId |-> endorsedId,
                       trustWeight |-> trustWeight])
        qualifies == endorsementsFor(ses, endorsedId) >= SocialBadgeThreshold
    IN
    /\ socialEndorsements' = ses
    /\ users' = IF hasUser(users, endorsedId)
                THEN [users EXCEPT ![endorsedId].trustScore =
                                      @ + endorsementIncrease(trustWeight)]
                ELSE users
    /\ userBadges' = IF qualifies
                     THEN awardByRequirementUB(userBadges, endorsedId, "social_endorsed")
                     ELSE userBadges
    /\ activityLogs' = createActivityLog(
                          IF qualifies
                          THEN awardByRequirementLogs(userBadges, activityLogs,
                                                      endorsedId, "social_endorsed")
                          ELSE activityLogs,
                          endorsedId, "endorsement_received", "endorsement")
    /\ lastOp' = [op |-> "createEndorsement", endorsedId |-> endorsedId,
                  trustWeight |-> trustWeight, ret |-> Len(ses)]
    /\ UNCHANGED <<identityShares, now>>
    /\ UNCHANGED <<verificationMethods, badges, blockchainVerifications, biometricData>>

createBlockchainVerification(userId, verified) ==
    /\ blockchainVerifications' =
          Append(blockchainVerifications, [userId |-> userId, verified |-> verified])
    /\ verificationMethods' = createVerificationVM(verificationMethods, userId, "blockchain",
                                                "walletAddress, chainId")
    /\ userBadges' = IF verified
                     THEN awardByRequirementUB(userBadges, userId, "blockchain_verified")
                     ELSE userBadges
    /\ activityLogs' =
          LET started == createActivityLog(activityLogs, userId,
                                           "verification_started", "blockchain")
          IN  IF verified
              THEN awardByRequirementLogs(userBadges, started, userId, "blockchain_verified")
              ELSE started
    /\ lastOp' = [op |-> "createBlockchainVerification", userId |-> userId,
                  ret |-> Len(blockchainVerifications) + 1]
    /\ UNCHANGED <<identityShares, now>>
    /\ UNCHANGED <<users, badges, socialEndorsements, biometricData>>

createBiometricRecord(userId, verified) ==
    /\ biometricData' = Append(biometricData, [userId |-> userId, verified |-> verified])
    /\ verificationMethods' = createVerificationVM(verificationMethods, userId, "biometric",
                                                "type, provider")
    /\ userBadges' = IF verified
                     THEN awardByRequirementUB(userBadges, userId, "biometric_verified")
                     ELSE userBadges
    /\ activityLogs' =
          LET started == createActivityLog(activityLogs, userId,
                                           "verification_started", "biometric")
          IN  IF verified
              THEN awardByRequirementLogs(userBadges, started, userId, "biometric_verified")
              ELSE started
    /\ lastOp' = [op |-> "createBiometricRecord", userId |-> userId,
                  ret |-> Len(biometricData) + 1]
    /\ UNCHANGED <<identityShares, now>>
    /\ UNCHANGED <<users, badges, socialEndorsements, blockchainVerifications>>

(***************************************************************************)
(* Identity shares: createIdentityShare and getIdentityShare of MemStorage *)
(* and the two routes that call them.                                      *)
(***************************************************************************)
ExpiresInDaysInputs == {Absent, Present(-1), Present(0), Present(1)}

\* const expiresAt = expiresInDays
\*     ? new Date(Date.now() + expiresInDays * 24 * 60 * 60 * 1000) : undefined
\* (a number is truthy unless it is 0)
routeExpiresAt(expiresInDays) ==
    IF Len(expiresInDays) > 0 /\ expiresInDays[1] # 0
    THEN Present(now + expiresInDays[1])
    ELSE Absent

\* createIdentityShare; id and shareToken are two fresh randomUUIDs, and
\* expiresAt || null keeps a Date and turns undefined into null
createIdentityShare(userId, isPublic, expiresAt) ==
    /\ identityShares' =
          Append(identityShares,
                 [userId |-> userId, shareToken |-> Len(identityShares) + 1,
                  isPublic |-> isPublic, expiresAt |-> expiresAt, createdAt |-> now])
    /\ activityLogs' = createActivityLog(activityLogs, userId, "identity_shared",
                                         Len(identityShares) + 1)
    /\ UNCHANGED <<users, verificationMethods, badges, userBadges, socialEndorsements,
                   blockchainVerifications, biometricData, now>>

\* POST /api/user/:id/share, which answers with the share
postShare(userId, isPublic, expiresInDays) ==
    /\ createIdentityShare(userId, isPublic, routeExpiresAt(expiresInDays))
    /\ lastOp' = [op |-> "postShare", userId |-> userId,
                  expiresInDays |-> expiresInDays, status |-> 200,
                  ret |-> Len(identityShares) + 1]

\* Array.from(this.identityShares.values()).find(s => s.shareToken === shareToken):
\* the key of the share, 0 if there is none
findShare(shares, shareToken) ==
    IF \E i \in DOMAIN shares : shares[i].shareToken = shareToken
    THEN CHOOSE i \in DOMAIN shares :
            /\ shares[i].shareToken = shareToken
            /\ \A j \in DOMAIN shares : shares[j].shareToken = shareToken => i <= j
    ELSE 0

\* getIdentityShare without the check of expiresAt
getIdentityShareNoExpiry(shares, us, t, shareToken) ==
    IF findShare(shares, shareToken) = 0 THEN Absent
    ELSE IF ~hasUser(us, shares[findShare(shares, shareToken)].userId) THEN Absent
    ELSE Present(shares[findShare(shares, shareToken)])

\* getIdentityShare at time t: undefined, or the share (with its user)
getIdentityShare(shares, us, t, shareToken) ==
    IF findShare(shares, shareToken) = 0 THEN Absent
    ELSE LET share == shares[findShare(shares, shareToken)] IN
         IF Len(share.expiresAt) > 0 /\ share.expiresAt[1] < t THEN Absent
         ELSE IF ~hasUser(us, share.userId) THEN Absent
         ELSE Present(share)

\* GET /api/share/:token, the status, the message and the user of the answer
getShareResponse(shares, us, t, shareToken) ==
    IF Len(getIdentityShare(shares, us, t, shareToken)) = 0
    THEN [status |-> 404, message |-> "Share not found or expired", userId |-> GhostUserId]
    ELSE [status |-> 200, message |-> "",
          userId |-> getIdentityShare(shares, us, t, shareToken)[1].userId]

\* the clock advances by a day
tick ==
    /\ now' = now + 1
    /\ lastOp' = [op |-> "tick"]
    /\ UNCHANGED <<users, verificationMethods, badges, userBadges, activityLogs,
                   socialEndorsements, blockchainVerifications, biometricData,
                   identityShares>>

(***************************************************************************)
(* The list queries. A result is the sequence of the keys of the entries   *)
(* returned, in the order returned.                                        *)
(***************************************************************************)
\* the keys of a map, in insertion order: Array.from(map.values())
Keys(map) == [i \in 1..Len(map) |-> i]

\* Array.prototype.sort(cmp), which is stable: an element comes after the
\* elements that cmp puts before it and after the equal ones that precede it;
\* cmp[a, b] is the comparator's result for the entries of keys a and b
sort(seq, cmp) ==
    LET position(i) ==
            Cardinality({j \in DOMAIN seq : cmp[seq[j], seq[i]] < 0})
            + Cardinality({j \in DOMAIN seq : j < i /\ cmp[seq[j], seq[i]] = 0}) + 1
    IN  [p \in 1..Len(seq) |-> seq[CHOOSE i \in DOMAIN seq : position(i) = p]]

\* the comparator with its operands exchanged
verificationOrderReversed(a, b) == b.createdAt - a.createdAt

\* (a, b) => (a.createdAt?.getTime() || 0) - (b.createdAt?.getTime() || 0);
\* every stored entry has a createdAt
verificationOrder(a, b) == a.createdAt - b.createdAt

getVerificationMethods(vms, userId) ==
    LET cmp == [a \in DOMAIN vms, b \in DOMAIN vms |->
                   verificationOrder(vms[a], vms[b])]
    IN  sort(SelectSeq(Keys(vms), LAMBDA i : vms[i].userId = userId), cmp)

\* the comparator with its operands exchanged
activityOrderAscending(a, b) == a.createdAt - b.createdAt

\* (a, b) => (b.createdAt?.getTime() || 0) - (a.createdAt?.getTime() || 0)
activityOrder(a, b) == b.createdAt - a.createdAt

\* limit = 10
DefaultLimit == 10

\* getActivityLogs(userId, limit = 10): filter, sort, slice(0, limit), for
\* a limit that is not negative
getActivityLogs(logs, userId, limit) ==
    LET cmp == [a \in DOMAIN logs, b \in DOMAIN logs |->
                   activityOrder(logs[a], logs[b])]
        sorted == sort(SelectSeq(Keys(logs), LAMBDA i : logs[i].userId = userId), cmp)
    IN  SubSeq(sorted, 1, Min(IF limit = NoLimit THEN DefaultLimit ELSE limit,
                              Len(sorted)))

queryVerificationMethods(userId) ==
    /\ lastOp' = [op |-> "getVerificationMethods", userId |-> userId,
                  ret |-> getVerificationMethods(verificationMethods, userId)]
    /\ UNCHANGED <<users, verificationMethods, badges, userBadges, activityLogs,
                   socialEndorsements, blockchainVerifications, biometricData,
                   identityShares, now>>

queryActivityLogs(userId, limit) ==
    /\ lastOp' = [op |-> "getActivityLogs", userId |-> userId, limit |-> limit,
                  ret |-> getActivityLogs(activityLogs, userId, limit)]
    /\ UNCHANGED <<users, verificationMethods, badges, userBadges, activityLogs,
                   socialEndorsements, blockchainVerifications, biometricData,
                   identityShares, now>>

(***************************************************************************)
(* The routes that answer with a user. An answer is a status and a body;   *)
(* the body of an error answer is left out.                                *)
(***************************************************************************)
\* the user with every field: the destructuring without its first name
stripPasswordKeepsAll(user) == user

\* const { password, ...userResponse } = user
stripPassword(user) == [f \in DOMAIN user \ {"password"} |-> user[f]]

\* getUserByUsername: the key of the first user of this name, 0 if none
getUserByUsername(us, username) ==
    IF \E i \in DOMAIN us : us[i].username = username
    THEN CHOOSE i \in DOMAIN us :
            /\ us[i].username = username
            /\ \A j \in DOMAIN us : us[j].username = username => i <= j
    ELSE 0

\* getUserBadges: the keys of the user's UserBadges (each is returned with
\* its Badge)
getUserBadges(ub, userId) == SelectSeq(Keys(ub), LAMBDA i : ub[i].userId = userId)

\* the filter that keeps every verification
completedOnlyKeepsAll(vms, ids) == ids

\* verifications.filter(v => v.status === "completed")
completedOnly(vms, ids) == SelectSeq(ids, LAMBDA i : vms[i].status = "completed")

\* updateVerificationSchema.parse(req.body): verificationId and status
\* always, data when the body has it
updateVerificationSchema(verificationId, status, data) ==
    IF Len(data) = 0
    THEN [verificationId |-> verificationId, status |-> status]
    ELSE [verificationId |-> verificationId, status |-> status, data |-> data[1]]

\* PUT /api/verifications/:id
putVerificationRoute(id, verificationId, status, data) ==
    updateVerificationMethod(id, updateVerificationSchema(verificationId, status, data))

\* POST /api/auth/register, with no other call in flight
registerRoute(username, password) ==
    IF getUserByUsername(users, username) # 0
    THEN /\ lastOp' = [op |-> "register", status |-> 400, body |-> Absent]
         /\ UNCHANGED <<users, verificationMethods, badges, userBadges, activityLogs,
                        socialEndorsements, blockchainVerifications, biometricData,
                        identityShares, now>>
    ELSE /\ insertUser(username, simpleHash(password))
         /\ lastOp' = [op |-> "register", status |-> 200,
                       body |-> Present(stripPassword(users'[Len(users) + 1]))]

\* POST /api/auth/login
loginRoute(username, password) ==
    /\ lastOp' =
          IF getUserByUsername(users, username) = 0
          THEN [op |-> "login", status |-> 401, body |-> Absent]
          ELSE IF simpleHash(password) # users[getUserByUsername(users, username)].password
          THEN [op |-> "login", status |-> 401, body |-> Absent]
          ELSE [op |-> "login", status |-> 200,
                body |-> Present(stripPassword(users[getUserByUsername(users, username)]))]
    /\ UNCHANGED <<users, verificationMethods, badges, userBadges, activityLogs,
                   socialEndorsements, blockchainVerifications, biometricData,
                   identityShares, now>>

\* GET /api/user/:id
getUserRoute(id) ==
    /\ lastOp' =
          IF ~hasUser(users, id)
          THEN [op |-> "getUser", status |-> 404, body |-> Absent]
          ELSE [op |-> "getUser", status |-> 200, body |-> Present(stripPassword(users[id]))]
    /\ UNCHANGED <<users, verificationMethods, badges, userBadges, activityLogs,
                   socialEndorsements, blockchainVerifications, biometricData,
                   identityShares, now>>

\* GET /api/user/:id/dashboard; the networkStats of the body, three numbers
\* that hold no user, are left out
dashboardRoute(id) ==
    /\ lastOp' =
          IF ~hasUser(users, id)
          THEN [op |-> "dashboard", status |-> 404, body |-> Absent]
          ELSE [op |-> "dashboard", status |-> 200,
                body |-> Present(
                   [user |-> stripPassword(users[id]),
                    verifications |-> getVerificationMethods(verificationMethods, id),
                    badges |-> getUserBadges(userBadges, id),
                    activities |-> getActivityLogs(activityLogs, id, NoLimit)])]
    /\ UNCHANGED <<users, verificationMethods, badges, userBadges, activityLogs,
                   socialEndorsements, blockchainVerifications, biometricData,
                   identityShares, now>>

\* GET /api/share/:token, the body of the answer 200
getShareBody(shares, us, vms, ub, t, shareToken) ==
    IF Len(getIdentityShare(shares, us, t, shareToken)) = 0 THEN Absent
    ELSE LET share == getIdentityShare(shares, us, t, shareToken)[1] IN
         Present([user |-> stripPassword(us[share.userId]),
                  verifications |->
                     completedOnly(vms, getVerificationMethods(vms, share.userId)),
                  badges |-> getUserBadges(ub, share.userId),
                  share |-> [isPublic |-> share.isPublic, createdAt |-> share.createdAt]])

getShare(shareToken) ==
    /\ lastOp' = [op |-> "getShare", shareToken |-> shareToken,
                  response |-> getShareResponse(identityShares, users, now, shareToken),
                  body |-> getShareBody(identityShares, users, verificationMethods,
                                        userBadges, now, shareToken)]
    /\ UNCHANGED <<users, verificationMethods, badges, userBadges, activityLogs,
                   socialEndorsements, blockchainVerifications, biometricData,
                   identityShares, now>>

(***************************************************************************)
(* The calls a client can make, with their arguments drawn from the input  *)
(* domains; the exploration stops when the activity log is MaxLogs long.   *)
(***************************************************************************)
UserIdInputs == DOMAIN users \cup {GhostUserId}

VerificationIdInputs == DOMAIN verificationMethods \cup {UnknownVerificationId}

CreateUser ==
    /\ UNCHANGED calls
    /\ Len(activityLogs) < MaxLogs
    /\ Len(users) < MaxUsers
    /\ \E username \in UsernameInputs : createUser(username, simpleHash("secret"))

CreateVerificationMethod ==
    /\ UNCHANGED calls
    /\ Len(activityLogs) < MaxLogs
    /\ \E userId \in UserIdInputs, type \in TypeInputs :
          createVerificationMethod(userId, type)

UpdateVerificationMethod ==
    /\ UNCHANGED calls
    /\ Len(activityLogs) < MaxLogs
    /\ \E id \in VerificationIdInputs, status \in StatusInputs :
          updateVerificationMethod(id, [status |-> status])

AwardBadge ==
    /\ UNCHANGED calls
    /\ Len(activityLogs) < MaxLogs
    /\ \E userId \in UserIdInputs, badgeId \in BadgeIdInputs : awardBadge(userId, badgeId)

CreateEndorsement ==
    /\ UNCHANGED calls
    /\ Len(activityLogs) < MaxLogs
    /\ Len(socialEndorsements) < MaxEndorsements
    /\ \E endorsedId \in UserIdInputs, trustWeight \in TrustWeightInputs :
          createEndorsement(GhostUserId, endorsedId, trustWeight)

CreateBlockchainVerification ==
    /\ UNCHANGED calls
    /\ Len(activityLogs) < MaxLogs
    /\ \E userId \in UserIdInputs, verified \in BOOLEAN :
          createBlockchainVerification(userId, verified)

CreateBiometricRecord ==
    /\ UNCHANGED calls
    /\ Len(activityLogs) < MaxLogs
    /\ \E userId \in UserIdInputs, verified \in BOOLEAN :
          createBiometricRecord(userId, verified)

Next ==
    \/ CreateUser
    \/ CreateVerificationMethod
    \/ UpdateVerificationMethod
    \/ AwardBadge
    \/ CreateEndorsement
    \/ CreateBlockchainVerification
    \/ CreateBiometricRecord

Spec == Init /\ [][Next]_vars

(***************************************************************************)
(* The trust-score path on its own, explored deeper: the seeded user gets  *)
(* one more verification, completions are repeated and endorsements are    *)
(* received, until the activity log is MaxTrustLogs long.                  *)
(***************************************************************************)
TrustVerificationIds ==
    {1} \cup (DOMAIN verificationMethods \ DOMAIN DemoVerifications)

TrustTypeInputs == {"biometric", "government_id"}

TrustCreateVerification ==
    /\ UNCHANGED calls
    /\ Len(activityLogs) < MaxTrustLogs
    /\ Len(verificationMethods) = Len(DemoVerifications)
    /\ \E type \in TrustTypeInputs : createVerificationMethod(DemoUserId, type)

TrustComplete ==
    /\ UNCHANGED calls
    /\ Len(activityLogs) < MaxTrustLogs
    /\ \E id \in TrustVerificationIds : updateVerificationMethod(id, [status |-> "completed"])

TrustEndorse ==
    /\ UNCHANGED calls
    /\ Len(activityLogs) < MaxTrustLogs
    /\ Len(socialEndorsements) < MaxEndorsements
    /\ \E trustWeight \in {NoWeight, 5} :
          createEndorsement(GhostUserId, DemoUserId, trustWeight)

NextTrust ==
    \/ TrustCreateVerification
    \/ TrustComplete
    \/ TrustEndorse

SpecTrust == Init /\ [][NextTrust]_vars

(***************************************************************************)
(* The operations that award a badge as a side effect, on the seeded user: *)
(* a user is created, a blockchain and a biometric record are inserted,    *)
(* the verifications they start are completed, and endorsements are        *)
(* received past the social badge threshold, next to direct awardBadge     *)
(* calls, each kind of record once, until the activity log is MaxAutoLogs  *)
(* long.                                                                   *)
(***************************************************************************)
AutoCreateUser ==
    /\ UNCHANGED calls
    /\ Len(activityLogs) < MaxAutoLogs
    /\ Len(users) = 1
    /\ createUser("bob", simpleHash("secret"))

AutoComplete ==
    /\ UNCHANGED calls
    /\ Len(activityLogs) < MaxAutoLogs
    /\ \E id \in DOMAIN verificationMethods \ DOMAIN DemoVerifications :
          /\ verificationMethods[id].status # "completed"
          /\ updateVerificationMethod(id, [status |-> "completed"])

AutoEndorse ==
    /\ UNCHANGED calls
    /\ Len(activityLogs) < MaxAutoLogs
    /\ Len(socialEndorsements) < MaxEndorsements
    /\ createEndorsement(GhostUserId, DemoUserId, NoWeight)

AutoBlockchain ==
    /\ UNCHANGED calls
    /\ Len(activityLogs) < MaxAutoLogs
    /\ blockchainVerifications = <<>>
    /\ createBlockchainVerification(DemoUserId, TRUE)

AutoBiometric ==
    /\ UNCHANGED calls
    /\ Len(activityLogs) < MaxAutoLogs
    /\ biometricData = <<>>
    /\ createBiometricRecord(DemoUserId, TRUE)

AutoAwardBadge ==
    /\ UNCHANGED calls
    /\ Len(activityLogs) < MaxAutoLogs
    /\ ExistingUserBadge(userBadges, DemoUserId, FindBadge(badges, "domain_ownership")) = 0
    /\ awardBadge(DemoUserId, FindBadge(badges, "domain_ownership"))

NextAuto ==
    \/ AutoCreateUser
    \/ AutoComplete
    \/ AutoEndorse
    \/ AutoBlockchain
    \/ AutoBiometric
    \/ AutoAwardBadge

SpecAuto == Init /\ [][NextAuto]_vars

(***************************************************************************)
(* The share routes on their own: shares are created for the seeded user   *)
(* and for an id that is the key of no user, with every kind of            *)
(* expiresInDays; tokens are resolved; and the clock advances up to MaxNow *)
(* days.                                                                   *)
(***************************************************************************)
ShareTokenInputs == DOMAIN identityShares \cup {UnknownToken}

SharePost ==
    /\ UNCHANGED calls
    /\ Len(identityShares) < MaxShares
    /\ \E userId \in {DemoUserId, GhostUserId}, isPublic \in BOOLEAN,
          expiresInDays \in ExpiresInDaysInputs :
          postShare(userId, isPublic, expiresInDays)

ShareGet ==
    /\ UNCHANGED calls
    /\ \E shareToken \in ShareTokenInputs : getShare(shareToken)

ShareTick ==
    /\ UNCHANGED calls
    /\ now < MaxNow
    /\ tick

NextShare ==
    \/ SharePost
    \/ ShareGet
    \/ ShareTick

SpecShare == Init /\ [][NextShare]_vars

(***************************************************************************)
(* The list queries on their own: verifications are started for the seeded *)
(* user and, once, for an id that is the key of no user, while the clock   *)
(* advances, until the activity log is MaxQueryLogs long; the lists are    *)
(* read in every state.                                                    *)
(***************************************************************************)
QueryUserIds == {DemoUserId, GhostUserId}

LimitInputs == {NoLimit, 0, 2, DefaultLimit + 2}

QueryCreateVerification ==
    /\ UNCHANGED calls
    /\ Len(activityLogs) < MaxQueryLogs
    /\ \E userId \in QueryUserIds :
          /\ userId = GhostUserId =>
                \A i \in DOMAIN verificationMethods :
                   verificationMethods[i].userId # GhostUserId
          /\ createVerificationMethod(userId, "email")

QueryVerificationMethods ==
    /\ UNCHANGED calls
    /\ \E userId \in QueryUserIds : queryVerificationMethods(userId)

QueryActivityLogs ==
    /\ UNCHANGED calls
    /\ \E userId \in QueryUserIds, limit \in LimitInputs :
          queryActivityLogs(userId, limit)

QueryTick ==
    /\ UNCHANGED calls
    /\ now < MaxNow
    /\ tick

NextQuery ==
    \/ QueryCreateVerification
    \/ QueryVerificationMethods
    \/ QueryActivityLogs
    \/ QueryTick

SpecQuery == Init /\ [][NextQuery]_vars

(***************************************************************************)
(* Calls in flight together. An async method runs without interruption up  *)
(* to its next await and gives way there, so another call can run between  *)
(* two awaits of the same call. Each slot makes one call:                  *)
(*   complete  updateVerificationMethod(id, {status: "completed"})         *)
(*   endorse   createEndorsement({endorsedId, trustWeight})                *)
(*   register  POST /api/auth/register {username}                          *)
(* The pc of a call names the await it is suspended at; read is the value  *)
(* the call holds in a local constant since its last read of the store.    *)
(* The catalog holds no badge for any requirement these calls look up, so  *)
(* none of them awaits awardBadge.                                         *)
(***************************************************************************)
Suspend(s, op, pc, id, username, trustWeight, read, ret) ==
    calls' = [calls EXCEPT ![s] = [op |-> op, pc |-> pc, id |-> id,
                                  username |-> username, trustWeight |-> trustWeight,
                                  read |-> read, ret |-> ret]]

Resume(s, pc, read, ret) ==
    calls' = [calls EXCEPT ![s].pc = pc, ![s].read = read, ![s].ret = ret]

\* const user = await this.getUser(userId): what the call holds afterwards
readScore(us, userId) == IF hasUser(us, userId) THEN us[userId].trustScore ELSE NoScore

\* updateVerificationMethod up to the await of getUser in
\* handleVerificationCompletion: the method is stored as completed and the
\* user has been read
completeCall(s, id) ==
    /\ calls[s] = NoCall
    /\ id \in DOMAIN verificationMethods
    /\ FindBadge(badges, badgeMap(verificationMethods[id].type)) = NoBadge
    /\ verificationMethods' = [verificationMethods EXCEPT ![id].status = "completed",
                                                          ![id].completedAt = "now"]
    /\ Suspend(s, "complete", "getUser", id, "", 0,
               readScore(users, verificationMethods[id].userId), "")
    /\ lastOp' = [op |-> "call", slot |-> s]
    /\ UNCHANGED <<users, badges, userBadges, activityLogs, socialEndorsements,
                   blockchainVerifications, biometricData, identityShares, now>>

\* from the await of getUser to the next await: updateUser has stored the
\* score and the level computed from the user that was read; without a user,
\* the log entry has been appended and the call returns
completeAfterGetUser(s) ==
    LET method == verificationMethods[calls[s].id] IN
    /\ calls[s].op = "complete" /\ calls[s].pc = "getUser"
    /\ IF calls[s].read # NoScore
       THEN /\ users' = [users EXCEPT
                           ![method.userId].trustScore = newScore(calls[s].read, method.type),
                           ![method.userId].trustLevel =
                               newLevel(newScore(calls[s].read, method.type))]
            /\ Resume(s, "updateUser", calls[s].read, "")
            /\ UNCHANGED activityLogs
       ELSE /\ activityLogs' = createActivityLog(activityLogs, method.userId,
                                                 "verification_completed", method.type)
            /\ Resume(s, "done", calls[s].read, "ok")
            /\ UNCHANGED users
    /\ lastOp' = [op |-> "resume", slot |-> s]
    /\ UNCHANGED <<verificationMethods, badges, userBadges, socialEndorsements,
                   blockchainVerifications, biometricData, identityShares, now>>

\* from the await of updateUser to the return: the log entry is appended
completeAfterUpdateUser(s) ==
    LET method == verificationMethods[calls[s].id] IN
    /\ calls[s].op = "complete" /\ calls[s].pc = "updateUser"
    /\ activityLogs' = createActivityLog(activityLogs, method.userId,
                                         "verification_completed", method.type)
    /\ Resume(s, "done", calls[s].read, "ok")
    /\ lastOp' = [op |-> "resume", slot |-> s]
    /\ UNCHANGED <<users, verificationMethods, badges, userBadges, socialEndorsements,
                   blockchainVerifications, biometricData, identityShares, now>>

\* createEndorsement up to the await of getUser: the endorsement is stored
\* and the endorsed user has been read
endorseCall(s, endorsedId, trustWeight) ==
    /\ calls[s] = NoCall
    /\ socialEndorsements' =
          Append(socialEndorsements,
                 [endorserId |-> GhostUserId, endorsedId |-> endorsedId,
                  trustWeight |-> trustWeight])
    /\ Suspend(s, "endorse", "getUser", endorsedId, "", trustWeight,
               readScore(users, endorsedId), "")
    /\ lastOp' = [op |-> "call", slot |-> s]
    /\ UNCHANGED <<users, verificationMethods, badges, userBadges, activityLogs,
                   blockchainVerifications, biometricData, identityShares, now>>

\* from the await of getUser to the next await: updateUser has stored the
\* score computed from the user that was read; without a user, the
\* endorsements have been counted
endorseAfterGetUser(s) ==
    /\ calls[s].op = "endorse" /\ calls[s].pc = "getUser"
    /\ IF calls[s].read # NoScore
       THEN /\ users' = [users EXCEPT
                           ![calls[s].id].trustScore =
                               calls[s].read + endorsementIncrease(calls[s].trustWeight)]
            /\ Resume(s, "updateUser", calls[s].read, "")
       ELSE /\ UNCHANGED users
            /\ Resume(s, "getEndorsementsFor",
                      endorsementsFor(socialEndorsements, calls[s].id), "")
    /\ lastOp' = [op |-> "resume", slot |-> s]
    /\ UNCHANGED <<verificationMethods, badges, userBadges, activityLogs,
                   socialEndorsements, blockchainVerifications, biometricData,
                   identityShares, now>>

\* from the await of updateUser to the await of getEndorsementsFor, which
\* has counted the endorsements
endorseAfterUpdateUser(s) ==
    /\ calls[s].op = "endorse" /\ calls[s].pc = "updateUser"
    /\ Resume(s, "getEndorsementsFor", endorsementsFor(socialEndorsements, calls[s].id), "")
    /\ lastOp' = [op |-> "resume", slot |-> s]
    /\ UNCHANGED <<users, verificationMethods, badges, userBadges, activityLogs,
                   socialEndorsements, blockchainVerifications, biometricData,
                   identityShares, now>>

\* from the await of getEndorsementsFor to the return: the badge lookup
\* finds nothing, and the log entry is appended
endorseAfterGetEndorsements(s) ==
    /\ calls[s].op = "endorse" /\ calls[s].pc = "getEndorsementsFor"
    /\ FindBadge(badges, "social_endorsed") = NoBadge
    /\ activityLogs' = createActivityLog(activityLogs, calls[s].id,
                                         "endorsement_received", "endorsement")
    /\ Resume(s, "done", calls[s].read, "ok")
    /\ lastOp' = [op |-> "resume", slot |-> s]
    /\ UNCHANGED <<users, verificationMethods, badges, userBadges, socialEndorsements,
                   blockchainVerifications, biometricData, identityShares, now>>

\* Array.from(this.users.values()).find(user => user.username === username)
\* finds a user
hasUsername(us, username) == \E i \in DOMAIN us : us[i].username = username

\* the register route up to the await of getUserByUsername: read is 1 when
\* a user of this name was found
registerCall(s, username) ==
    /\ calls[s] = NoCall
    /\ Suspend(s, "register", "getUserByUsername", 0, username, 0,
               IF hasUsername(users, username) THEN 1 ELSE 0, "")
    /\ lastOp' = [op |-> "call", slot |-> s]
    /\ UNCHANGED <<users, verificationMethods, badges, userBadges, activityLogs,
                   socialEndorsements, blockchainVerifications, biometricData,
                   identityShares, now>>

\* if (existingUser) return res.status(400).json({message: "Username already exists"})
registerConflict(s) ==
    /\ calls[s].op = "register" /\ calls[s].pc = "getUserByUsername"
    /\ calls[s].read = 1
    /\ Resume(s, "done", calls[s].read, "Username already exists")
    /\ lastOp' = [op |-> "register", username |-> calls[s].username, status |-> 400]
    /\ UNCHANGED <<users, verificationMethods, badges, userBadges, activityLogs,
                   socialEndorsements, blockchainVerifications, biometricData,
                   identityShares, now>>

\* no user was found: createUser stores the user and its log entry before
\* its first await, and the route answers with the user
registerCreate(s) ==
    /\ calls[s].op = "register" /\ calls[s].pc = "getUserByUsername"
    /\ calls[s].read = 0
    /\ FindBadge(badges, "early_adopter") = NoBadge
    /\ createUser(calls[s].username, simpleHash("secret"))
    /\ Resume(s, "done", calls[s].read, "ok")

(***************************************************************************)
(* Two calls in flight: the seeded user may first get one more             *)
(* verification; then each slot makes one call, and the calls advance from *)
(* await to await in any order.                                            *)
(***************************************************************************)
ConcCreateVerification ==
    /\ \A s \in Slots : calls[s] = NoCall
    /\ Len(verificationMethods) = Len(DemoVerifications)
    /\ UNCHANGED calls
    /\ \E type \in TrustTypeInputs : createVerificationMethod(DemoUserId, type)

ConcCall ==
    \E s \in Slots :
       \/ \E id \in TrustVerificationIds : completeCall(s, id)
       \/ \E trustWeight \in {NoWeight, 5} : endorseCall(s, DemoUserId, trustWeight)
       \/ \E username \in UsernameInputs : registerCall(s, username)

ConcResume ==
    \E s \in Slots :
       \/ completeAfterGetUser(s)
       \/ completeAfterUpdateUser(s)
       \/ endorseAfterGetUser(s)
       \/ endorseAfterUpdateUser(s)
       \/ endorseAfterGetEndorsements(s)
       \/ registerConflict(s)
       \/ registerCreate(s)

NextConc ==
    \/ ConcCreateVerification
    \/ ConcCall
    \/ ConcResume

SpecConc == Init /\ [][NextConc]_vars

(***************************************************************************)
(* The routes that answer with a user, together with what changes the      *)
(* answers: registrations, verifications started, completed and failed,    *)
(* and shares without expiry, until the activity log is MaxHttpLogs long.  *)
(***************************************************************************)
HttpUsernames == {"alex.rodriguez.verified", "bob"}

HttpRegister ==
    /\ UNCHANGED calls
    /\ Len(activityLogs) < MaxHttpLogs
    /\ \E username \in HttpUsernames : registerRoute(username, "secret")

HttpLogin ==
    /\ UNCHANGED calls
    /\ \E username \in HttpUsernames, password \in PasswordInputs :
          loginRoute(username, password)

HttpGetUser ==
    /\ UNCHANGED calls
    /\ \E id \in UserIdInputs : getUserRoute(id)

HttpDashboard ==
    /\ UNCHANGED calls
    /\ \E id \in UserIdInputs : dashboardRoute(id)

HttpCreateVerification ==
    /\ UNCHANGED calls
    /\ Len(activityLogs) < MaxHttpLogs
    /\ \E userId \in DOMAIN users : createVerificationMethod(userId, "government_id")

\* the verificationId and the data of the body of a PUT
VerificationIdBodies == {"vm-1"}

DataInputs == {Absent, Present("evidence")}

HttpUpdateVerification ==
    /\ UNCHANGED calls
    /\ Len(activityLogs) < MaxHttpLogs
    /\ \E id \in DOMAIN verificationMethods, status \in StatusInputs,
          verificationId \in VerificationIdBodies :
          putVerificationRoute(id, verificationId, status, Absent)

HttpPostShare ==
    /\ UNCHANGED calls
    /\ Len(activityLogs) < MaxHttpLogs
    /\ Len(identityShares) < MaxShares
    /\ \E userId \in DOMAIN users : postShare(userId, FALSE, Absent)

HttpGetShare ==
    /\ UNCHANGED calls
    /\ \E shareToken \in ShareTokenInputs : getShare(shareToken)

NextHttp ==
    \/ HttpRegister
    \/ HttpLogin
    \/ HttpGetUser
    \/ HttpDashboard
    \/ HttpCreateVerification
    \/ HttpUpdateVerification
    \/ HttpPostShare
    \/ HttpGetShare

SpecHttp == Init /\ [][NextHttp]_vars

(***************************************************************************)
(* The PUT route on its own: a second user registers, verifications are    *)
(* started for the users, a share of the seeded user is created, and       *)
(* verifications are updated with every status, with and without data,     *)
(* until the activity log is MaxPutLogs long.                              *)
(***************************************************************************)
PutRegister ==
    /\ UNCHANGED calls
    /\ Len(activityLogs) < MaxPutLogs
    /\ Len(users) = 1
    /\ registerRoute("bob", "secret")

PutCreateVerification ==
    /\ UNCHANGED calls
    /\ Len(activityLogs) < MaxPutLogs
    /\ \E userId \in DOMAIN users : createVerificationMethod(userId, "email")

PutPostShare ==
    /\ UNCHANGED calls
    /\ identityShares = <<>>
    /\ postShare(DemoUserId, FALSE, Absent)

\* the first seeded verification, those started since, and an unknown id
PutVerificationIds ==
    {1, UnknownVerificationId} \cup (DOMAIN verificationMethods \ DOMAIN DemoVerifications)

PutVerification ==
    /\ UNCHANGED calls
    /\ Len(activityLogs) < MaxPutLogs
    /\ \E id \in PutVerificationIds, status \in Statuses,
          verificationId \in VerificationIdBodies, data \in DataInputs :
          putVerificationRoute(id, verificationId, status, data)

NextPut ==
    \/ PutRegister
    \/ PutCreateVerification
    \/ PutPostShare
    \/ PutVerification

SpecPut == Init /\ [][NextPut]_vars

(***************************************************************************)
(* Properties.                                                             *)
(***************************************************************************)
\* the step just taken is a completion event of verification id whose owning
\* user exists: updateVerificationMethod(id, {status: "completed"})
IsCompletionOf(id) ==
    /\ lastOp'.op = "updateVerificationMethod"
    /\ lastOp'.status = "completed"
    /\ lastOp'.id = id
    /\ id \in DOMAIN verificationMethods
    /\ verificationMethods[id].userId \in DOMAIN users

\* number of badge_earned log entries of the pair
BadgeEarnedCount(userId, badgeId) ==
    Cardinality({i \in DOMAIN activityLogs :
                    /\ activityLogs[i].action = "badge_earned"
                    /\ activityLogs[i].userId = userId
                    /\ activityLogs[i].meta = badgeId})

\* C1: in every reachable state the store holds at most one UserBadge for
\* each (userId, badgeId) pair.
C1_OneUserBadgePerPair ==
    \A i, j \in DOMAIN userBadges :
        (userBadges[i].userId = userBadges[j].userId
         /\ userBadges[i].badgeId = userBadges[j].badgeId) => i = j

\* C1 witness: awardBadge has just been called for a pair that was already
\* held, in a store that holds more UserBadges than the seeded ones.
C1_Witness ==
    /\ lastOp.op = "awardBadge"
    /\ lastOp.existing
    /\ Len(userBadges) > Len(DemoUserBadges)

\* C2: awardBadge(u, b) called when a UserBadge of (u, b) exists returns
\* that record, adds no UserBadge and appends no log entry; and every pair
\* awarded by awardBadge has exactly one UserBadge and exactly one
\* badge_earned log entry, however often the award is repeated.
C2_AwardIdempotent ==
    /\ [][(/\ lastOp'.op = "awardBadge"
           /\ \E i \in DOMAIN userBadges :
                 /\ userBadges[i].userId = lastOp'.userId
                 /\ userBadges[i].badgeId = lastOp'.badgeId)
          => (/\ userBadges' = userBadges
              /\ activityLogs' = activityLogs
              /\ lastOp'.ret \in DOMAIN userBadges
              /\ userBadges[lastOp'.ret].userId = lastOp'.userId
              /\ userBadges[lastOp'.ret].badgeId = lastOp'.badgeId)]_vars
    /\ [](\A i \in DOMAIN userBadges :
             i > Len(DemoUserBadges) =>
                /\ BadgeEarnedCount(userBadges[i].userId, userBadges[i].badgeId) = 1
                /\ Cardinality({j \in DOMAIN userBadges :
                                   /\ userBadges[j].userId = userBadges[i].userId
                                   /\ userBadges[j].badgeId = userBadges[i].badgeId}) = 1)

\* C2 witness: a badge first awarded by awardBadge has just been awarded to
\* the same user a second time.
C2_Witness ==
    /\ lastOp.op = "awardBadge"
    /\ lastOp.existing
    /\ lastOp.ret > Len(DemoUserBadges)
    /\ BadgeEarnedCount(lastOp.userId, lastOp.badgeId) = 1

\* C3: a completion event for an existing user writes
\* trustScore' = min(1000, trustScore + delta), with delta 100 for biometric,
\* 80 for government_id and 50 or 80 for the other types, and
\* trustLevel' = min(5, floor(trustScore' / 200) + 1), and does not fail; so
\* a biometric completion from score 900 yields score 1000 and level 5.
C3_CompletionScoreAndLevel ==
    [][\A id \in DOMAIN verificationMethods :
          IsCompletionOf(id) =>
             LET u == verificationMethods[id].userId
                 t == verificationMethods[id].type
                 deltas == IF t = "biometric" THEN {100}
                           ELSE IF t = "government_id" THEN {80} ELSE {50, 80}
             IN  /\ lastOp'.ret = "ok"
                 /\ \E delta \in deltas :
                       users'[u].trustScore = Min(1000, users[u].trustScore + delta)
                 /\ users'[u].trustLevel = Min(5, (users'[u].trustScore \div 200) + 1)
                 /\ (t = "biometric" /\ users[u].trustScore = 900)
                       => (users'[u].trustScore = 1000 /\ users'[u].trustLevel = 5)]_vars

\* C3 witness: a biometric verification has just been completed for a user
\* whose score was 900, and the user now has score 1000 and level 5.
C3_Witness ==
    /\ lastOp.op = "updateVerificationMethod"
    /\ lastOp.status = "completed"
    /\ lastOp.ret = "ok"
    /\ verificationMethods[lastOp.id].type = "biometric"
    /\ lastOp.currentScore = 900
    /\ users[verificationMethods[lastOp.id].userId].trustScore = 1000
    /\ users[verificationMethods[lastOp.id].userId].trustLevel = 5

\* C4: an update that sets status completed on a verification that is
\* already completed leaves the users, the UserBadges and the activity log
\* unchanged.
C4_RecompletionHasNoEffect ==
    [][\A id \in DOMAIN verificationMethods :
          (IsCompletionOf(id) /\ verificationMethods[id].status = "completed")
             => UNCHANGED <<users, userBadges, activityLogs>>]_vars

\* C5: in every reachable state every user has trustScore in 0..1000 and
\* trustLevel in 1..5.
C5_ScoreAndLevelInRange ==
    \A u \in DOMAIN users :
        /\ users[u].trustScore \in 0..1000
        /\ users[u].trustLevel \in 1..5

\* the (trustScore, trustLevel) pairs of the user records of a users map
ScoreLevelPairs(us) == {<<us[u].trustScore, us[u].trustLevel>> : u \in DOMAIN us}

\* C6: trustLevel is a monotonic non-decreasing function of trustScore: of
\* any two user records, taken from a state, from its successor or from the
\* seed, the one with the lower-or-equal score has the lower-or-equal level.
C6_LevelMonotonicInScore ==
    [][\A r1, r2 \in ScoreLevelPairs(users) \cup ScoreLevelPairs(users')
                     \cup {<<DemoUser.trustScore, DemoUser.trustLevel>>} :
          r1[1] <= r2[1] => r1[2] <= r2[2]]_vars

\* the score delta the completion of verification id has just applied to
\* the owning user, read off the scores before and after (Min where the cap
\* at 1000 cut it)
CompletionAdds(id, delta) ==
    users'[verificationMethods[id].userId].trustScore =
        Min(1000, users[verificationMethods[id].userId].trustScore + delta)

\* C7 as stated: the delta of a completion event is +100 for biometric, +80
\* for government_id and document_attestation, +50 for every other type.
C7_DeltaDocumentClass ==
    [][\A id \in DOMAIN verificationMethods :
          IsCompletionOf(id) =>
             CompletionAdds(id,
                IF verificationMethods[id].type = "biometric" THEN 100
                ELSE IF verificationMethods[id].type
                           \in {"government_id", "document_attestation"} THEN 80
                ELSE 50)]_vars

\* C7 amended: the delta of a completion event depends only on the
\* verification type: +100 for biometric, +80 for government_id, +50 for
\* every other type, document_attestation included.
C7_DeltaByType ==
    [][\A id \in DOMAIN verificationMethods :
          IsCompletionOf(id) =>
             CompletionAdds(id,
                IF verificationMethods[id].type = "biometric" THEN 100
                ELSE IF verificationMethods[id].type = "government_id" THEN 80
                ELSE 50)]_vars

\* C7 witness: a document_attestation verification has just been completed
\* and raised the owning user's score by 50, below the cap.
C7_Witness ==
    /\ lastOp.op = "updateVerificationMethod"
    /\ lastOp.status = "completed"
    /\ lastOp.ret = "ok"
    /\ verificationMethods[lastOp.id].type = "document_attestation"
    /\ verificationMethods[lastOp.id].userId \in DOMAIN users
    /\ users[verificationMethods[lastOp.id].userId].trustScore = lastOp.currentScore + 50
    /\ lastOp.currentScore + 50 < 1000

\* number of verification_completed log entries of a user
CompletedCount(userId) ==
    Cardinality({i \in DOMAIN activityLogs :
                    /\ activityLogs[i].action = "verification_completed"
                    /\ activityLogs[i].userId = userId})

\* C8: a user produced by createUser starts with trustScore 0 and
\* trustLevel 1, and once one government_id verification has been created
\* and completed for that user (and nothing else has changed the score) the
\* user has trustScore 80 and trustLevel 1.
C8_NewUserScores ==
    /\ lastOp.op = "createUser" =>
          /\ users[lastOp.ret].trustScore = 0
          /\ users[lastOp.ret].trustLevel = 1
    /\ (/\ lastOp.op = "updateVerificationMethod"
        /\ lastOp.status = "completed"
        /\ lastOp.ret = "ok"
        /\ verificationMethods[lastOp.id].type = "government_id"
        /\ verificationMethods[lastOp.id].userId \in DOMAIN users \ {DemoUserId}
        /\ CompletedCount(verificationMethods[lastOp.id].userId) = 1
        /\ endorsementsFor(socialEndorsements, verificationMethods[lastOp.id].userId) = 0)
       => /\ users[verificationMethods[lastOp.id].userId].trustScore = 80
          /\ users[verificationMethods[lastOp.id].userId].trustLevel = 1

\* C9: createEndorsement adds exactly trustWeight * 10 to the endorsed
\* user's trustScore, for every trustWeight given (0 included), and does
\* not cap the result.
C9_EndorsementAddsWeightTimesTen ==
    [][(/\ lastOp'.op = "createEndorsement"
        /\ lastOp'.endorsedId \in DOMAIN users
        /\ lastOp'.trustWeight # NoWeight)
       => users'[lastOp'.endorsedId].trustScore =
             users[lastOp'.endorsedId].trustScore + lastOp'.trustWeight * 10]_vars

\* the UserBadges of a user whose badge has the requirement social_endorsed
SocialEndorsedBadgesOf(userId) ==
    {i \in DOMAIN userBadges :
        /\ userBadges[i].userId = userId
        /\ userBadges[i].badgeId \in DOMAIN badges
        /\ badges[userBadges[i].badgeId].requirement = "social_endorsed"}

\* C10: a user who has received 5 or more endorsements holds the
\* social_endorsed badge exactly once, with one badge_earned log entry, and
\* a user who has received fewer than 5 has not been awarded it.
C10_SocialEndorsedAtFive ==
    \A u \in DOMAIN users :
        IF endorsementsFor(socialEndorsements, u) >= 5
        THEN /\ Cardinality(SocialEndorsedBadgesOf(u)) = 1
             /\ \A i \in SocialEndorsedBadgesOf(u) :
                   BadgeEarnedCount(u, userBadges[i].badgeId) = 1
        ELSE SocialEndorsedBadgesOf(u) = {}

\* the maps that only grow by appending: map' is map with k entries added
Extends(after, before, k) ==
    /\ Len(after) = Len(before) + k
    /\ \A i \in DOMAIN before : after[i] = before[i]

\* C11: updateVerificationMethod with an id that matches no stored
\* verification fails with the not-found error and leaves every map of the
\* store unchanged.
C11_UnknownIdNotFound ==
    [][(/\ lastOp'.op = "updateVerificationMethod"
        /\ lastOp'.id \notin DOMAIN verificationMethods)
       => (/\ lastOp'.ret = "Verification method not found"
           /\ UNCHANGED <<users, verificationMethods, badges, userBadges, activityLogs,
                          socialEndorsements, blockchainVerifications,
                          biometricData>>)]_vars

\* C11 witness: an update with an unknown id has just failed, in a store
\* that other calls have already changed.
C11_Witness ==
    /\ lastOp.op = "updateVerificationMethod"
    /\ lastOp.id \notin DOMAIN verificationMethods
    /\ lastOp.ret = "Verification method not found"
    /\ Len(activityLogs) > Len(DemoActivities)

\* C16: the activity log is append-only: every entry of a state is, with
\* the same field values and at the same place, in the next state.
C16_LogAppendOnly ==
    [][/\ Len(activityLogs') >= Len(activityLogs)
       /\ \A i \in DOMAIN activityLogs : activityLogs'[i] = activityLogs[i]]_vars

\* C16 witness: two or more entries have been appended to the seeded log.
C16_Witness ==
    /\ Len(activityLogs) >= Len(DemoActivities) + 2
    /\ \A i \in DOMAIN DemoActivities : activityLogs[i] = DemoActivities[i]

\* C17: createVerificationMethod, for any userId, succeeds, adds exactly one
\* VerificationMethod, pending and with completedAt null, appends exactly
\* one verification_started log entry of that userId, and changes no user,
\* UserBadge or other verification.
C17_CreateVerificationFrame ==
    [][lastOp'.op = "createVerificationMethod" =>
          /\ Extends(verificationMethods', verificationMethods, 1)
          /\ lastOp'.ret = Len(verificationMethods')
          /\ verificationMethods'[lastOp'.ret].userId = lastOp'.userId
          /\ verificationMethods'[lastOp'.ret].status = "pending"
          /\ verificationMethods'[lastOp'.ret].completedAt = NULL
          /\ Extends(activityLogs', activityLogs, 1)
          /\ activityLogs'[Len(activityLogs')].action = "verification_started"
          /\ activityLogs'[Len(activityLogs')].userId = lastOp'.userId
          /\ UNCHANGED <<users, userBadges, badges>>]_vars

\* C17 witness: a verification has just been created for a userId that is
\* the key of no user.
C17_Witness ==
    /\ lastOp.op = "createVerificationMethod"
    /\ lastOp.userId \notin DOMAIN users
    /\ verificationMethods[lastOp.ret].status = "pending"

\* the answer of the route when nothing is resolved
NotFoundResponse ==
    [status |-> 404, message |-> "Share not found or expired", userId |-> GhostUserId]

\* the share of this token has an expiresAt that is earlier than now
Expired(shareToken) ==
    /\ shareToken \in DOMAIN identityShares
    /\ Len(identityShares[shareToken].expiresAt) > 0
    /\ identityShares[shareToken].expiresAt[1] < now

\* C12: resolving a share token answers NotFound (404) when the token is
\* unknown and when the share's expiresAt is set and earlier than now, with
\* the same answer in both cases; a share whose expiresAt is one day before
\* its creation (expiresInDays = -1) is resolvable in no state.
C12_UnknownOrExpiredNotFound ==
    /\ \A shareToken \in ShareTokenInputs :
          (shareToken \notin DOMAIN identityShares \/ Expired(shareToken))
             => getShareResponse(identityShares, users, now, shareToken) = NotFoundResponse
    /\ \A i \in DOMAIN identityShares :
          identityShares[i].expiresAt = Present(identityShares[i].createdAt - 1)
             => getShareResponse(identityShares, users, now, i).status = 404
    /\ (lastOp.op = "getShare"
          /\ (lastOp.shareToken \notin DOMAIN identityShares \/ Expired(lastOp.shareToken)))
       => lastOp.response = NotFoundResponse

\* C12 witness: of two shares of the seeded user, the one created with
\* expiresInDays = -1 has just been answered with 404, while the other one
\* is resolvable.
C12_Witness ==
    /\ lastOp.op = "getShare"
    /\ lastOp.shareToken \in DOMAIN identityShares
    /\ identityShares[lastOp.shareToken].userId = DemoUserId
    /\ identityShares[lastOp.shareToken].expiresAt =
          Present(identityShares[lastOp.shareToken].createdAt - 1)
    /\ lastOp.response = NotFoundResponse
    /\ \E j \in DOMAIN identityShares :
          getShareResponse(identityShares, users, now, j).status = 200

\* C13: a share created without expiresInDays is resolvable from its
\* creation on.
C13_NoExpiryResolvable ==
    [][(lastOp'.op = "postShare" /\ lastOp'.expiresInDays = Absent)
       => getShareResponse(identityShares', users', now', lastOp'.ret).status = 200]_vars

\* a share without expiresAt whose userId is the key of a user is
\* resolvable in every state
StoredUserShareNeverExpires ==
    \A i \in DOMAIN identityShares :
       (identityShares[i].expiresAt = Absent /\ identityShares[i].userId \in DOMAIN users)
          => getShareResponse(identityShares, users, now, i).status = 200

\* C14: share creation sets expiresAt to now + expiresInDays days for every
\* expiresInDays that is provided, positive, zero or negative, and to null
\* exactly when it is omitted; it stores one share and appends one
\* identity_shared log entry.
C14_ExpiresAtFromDays ==
    [][lastOp'.op = "postShare" =>
          /\ Extends(identityShares', identityShares, 1)
          /\ identityShares'[lastOp'.ret].expiresAt =
                (IF lastOp'.expiresInDays = Absent THEN Absent
                 ELSE Present(now + lastOp'.expiresInDays[1]))
          /\ Extends(activityLogs', activityLogs, 1)
          /\ activityLogs'[Len(activityLogs')].action = "identity_shared"]_vars

\* the entries of a result, as a set of keys
Range(seq) == {seq[k] : k \in DOMAIN seq}

\* C18: getVerificationMethods(userId) returns exactly the verifications
\* owned by userId, each once, in ascending order of createdAt, and the
\* empty sequence when the user has none.
C18_VerificationsAscending ==
    lastOp.op = "getVerificationMethods" =>
       LET owned == {i \in DOMAIN verificationMethods :
                        verificationMethods[i].userId = lastOp.userId}
       IN  /\ Range(lastOp.ret) = owned
           /\ Len(lastOp.ret) = Cardinality(owned)
           /\ \A j, k \in DOMAIN lastOp.ret :
                 j < k => verificationMethods[lastOp.ret[j]].createdAt
                             <= verificationMethods[lastOp.ret[k]].createdAt
           /\ (owned = {} => lastOp.ret = << >>)

\* C18 witness: the list of the seeded user has just been read, with the
\* seeded verifications and with two that were started on different days.
C18_Witness ==
    /\ lastOp.op = "getVerificationMethods"
    /\ lastOp.userId = DemoUserId
    /\ Len(lastOp.ret) >= Len(DemoVerifications) + 2
    /\ \E j, k \in DOMAIN lastOp.ret :
          /\ verificationMethods[lastOp.ret[j]].createdAt >= 0
          /\ verificationMethods[lastOp.ret[j]].createdAt
                < verificationMethods[lastOp.ret[k]].createdAt

\* C19: getActivityLogs(userId, limit) returns only entries of userId, in
\* descending order of createdAt; it returns min(limit, count) of them, and
\* none that is left out is more recent than one returned; without a limit
\* at most 10 entries are returned.
C19_LogsDescendingLimited ==
    lastOp.op = "getActivityLogs" =>
       LET owned == {i \in DOMAIN activityLogs : activityLogs[i].userId = lastOp.userId}
           limit == IF lastOp.limit = NoLimit THEN 10 ELSE lastOp.limit
       IN  /\ Range(lastOp.ret) \subseteq owned
           /\ Cardinality(Range(lastOp.ret)) = Len(lastOp.ret)
           /\ Len(lastOp.ret) = Min(limit, Cardinality(owned))
           /\ \A j, k \in DOMAIN lastOp.ret :
                 j < k => activityLogs[lastOp.ret[j]].createdAt
                             >= activityLogs[lastOp.ret[k]].createdAt
           /\ \A i \in owned \ Range(lastOp.ret), k \in DOMAIN lastOp.ret :
                 activityLogs[lastOp.ret[k]].createdAt >= activityLogs[i].createdAt
           /\ (lastOp.limit = NoLimit => Len(lastOp.ret) <= 10)

\* C19 witness: the log of the seeded user, which has more than 10
\* entries, has just been read without a limit, and 10 entries came back.
C19_Witness ==
    /\ lastOp.op = "getActivityLogs"
    /\ lastOp.userId = DemoUserId
    /\ lastOp.limit = NoLimit
    /\ Cardinality({i \in DOMAIN activityLogs : activityLogs[i].userId = DemoUserId}) > 10
    /\ Len(lastOp.ret) = 10

\* the score after the call c is applied, on its own, to a user of this score
ScoreAfter(c, score) ==
    IF c.op = "complete" THEN newScore(score, verificationMethods[c.id].type)
    ELSE score + endorsementIncrease(c.trustWeight)

\* C15: when two score-changing calls on the same user are in flight at
\* once and interleave at their awaits, no update is lost: once both have
\* returned, the user's trustScore is the result of applying both deltas,
\* one after the other, to the score the user had before them.
C15_NoLostUpdate ==
    (\A s \in Slots : calls[s].op \in {"complete", "endorse"} /\ calls[s].pc = "done")
       => users[DemoUserId].trustScore \in
             {ScoreAfter(calls["second"], ScoreAfter(calls["first"], DemoUser.trustScore)),
              ScoreAfter(calls["first"], ScoreAfter(calls["second"], DemoUser.trustScore))}

\* C20: in every reachable state no two users share a username, also when
\* two registrations of the same username are in flight at once; a
\* registration that found the username answers with the conflict and
\* creates no user.
C20_UsernamesUnique ==
    /\ \A i, j \in DOMAIN users : users[i].username = users[j].username => i = j
    /\ \A s \in Slots :
          (calls[s].op = "register" /\ calls[s].pc = "done" /\ calls[s].read = 1)
             => calls[s].ret = "Username already exists"

\* C21: in every reachable state no two users have the same chittyId,
\* whatever values the ChittyID generator produces.
C21_ChittyIdsUnique ==
    \A i, j \in DOMAIN users : users[i].chittyId = users[j].chittyId => i = j

\* the user of the answer just given, when the answer carries one
AnsweredUser ==
    IF lastOp.op \in {"register", "login", "getUser"} /\ lastOp.status = 200
       THEN Present(lastOp.body[1])
    ELSE IF lastOp.op = "dashboard" /\ lastOp.status = 200
       THEN Present(lastOp.body[1].user)
    ELSE IF lastOp.op = "getShare" /\ lastOp.response.status = 200
       THEN Present(lastOp.body[1].user)
    ELSE Absent

\* C22: no answer that carries a user (register, login, get user,
\* dashboard, share resolution) contains the user's password field.
C22_NoPasswordInAnswers ==
    Len(AnsweredUser) > 0 => "password" \notin DOMAIN AnsweredUser[1]

\* C22 witness: a user who registered has just logged in, and the answer
\* carries that user, whose stored record holds the hashed password.
C22_Witness ==
    /\ lastOp.op = "login"
    /\ lastOp.status = 200
    /\ lastOp.body[1].username = "bob"
    /\ users[lastOp.body[1].id].password = simpleHash("secret")

\* C23: a successful share resolution returns the share's owning user,
\* that user's badges, and a verification list in which every entry is
\* completed and which holds every completed verification of that user.
C23_ShareResolutionBody ==
    (lastOp.op = "getShare" /\ lastOp.response.status = 200) =>
       LET owner == identityShares[lastOp.shareToken].userId
           body == lastOp.body[1]
       IN  /\ body.user.id = owner
           /\ \A f \in DOMAIN body.user : body.user[f] = users[owner][f]
           /\ Range(body.badges) = {i \in DOMAIN userBadges : userBadges[i].userId = owner}
           /\ Range(body.verifications) =
                 {i \in DOMAIN verificationMethods :
                     /\ verificationMethods[i].userId = owner
                     /\ verificationMethods[i].status = "completed"}

\* C23 witness: a share of the seeded user has just been resolved while the
\* user has verifications that are completed and others that are not.
C23_Witness ==
    /\ lastOp.op = "getShare"
    /\ lastOp.response.status = 200
    /\ Len(lastOp.body[1].verifications) >= 2
    /\ Len(lastOp.body[1].badges) >= 1
    /\ \E i \in DOMAIN verificationMethods :
          /\ verificationMethods[i].userId = identityShares[lastOp.shareToken].userId
          /\ verificationMethods[i].status # "completed"

\* C24: the badge catalog never changes after initializeBadges; getAllBadges
\* returns the same badges in every reachable state.
C24_CatalogImmutable ==
    getAllBadges(badges) = getAllBadges(initializeBadges)

\* C24 witness: a badge has just been awarded to a user who did not hold
\* it, a user was created and a verification was updated before.
C24_Witness ==
    /\ lastOp.op = "awardBadge"
    /\ ~lastOp.existing
    /\ Len(userBadges) > Len(DemoUserBadges)
    /\ Len(users) > 1
    /\ \E i \in DOMAIN verificationMethods : verificationMethods[i].status = "failed"

\* the requirement the claimed table gives for a verification type
CompletionRequirement(type) ==
    IF type \in {"email", "phone", "government_id", "biometric"}
    THEN [email |-> "email_verified", phone |-> "phone_verified",
          government_id |-> "government_id_verified",
          biometric |-> "biometric_verified"][type]
    ELSE ""

HoldsBadgeOf(ub, userId, requirement) ==
    \E i \in DOMAIN ub :
       /\ ub[i].userId = userId
       /\ ub[i].badgeId \in DOMAIN badges
       /\ badges[ub[i].badgeId].requirement = requirement

\* C26: inserting a blockchain record with verified = true awards the
\* blockchain_verified badge to the record's user, inserting a biometric
\* record with verified = true awards the biometric_verified badge, and
\* with verified = false neither awards a badge.
C26_VerifiedRecordAwardsBadge ==
    [][/\ lastOp'.op = "createBlockchainVerification" =>
             IF blockchainVerifications'[lastOp'.ret].verified
             THEN HoldsBadgeOf(userBadges', lastOp'.userId, "blockchain_verified")
             ELSE userBadges' = userBadges
       /\ lastOp'.op = "createBiometricRecord" =>
             IF biometricData'[lastOp'.ret].verified
             THEN HoldsBadgeOf(userBadges', lastOp'.userId, "biometric_verified")
             ELSE userBadges' = userBadges]_vars

\* C27: in every reachable state a verification has a completedAt exactly
\* when its status is completed, also after a completed verification is
\* updated to pending, in_review or failed.
C27_CompletedAtIffCompleted ==
    \A id \in DOMAIN verificationMethods :
       (verificationMethods[id].completedAt # NULL)
          <=> (verificationMethods[id].status = "completed")

C29_TrustNeverDecreases ==
    [][\A id \in DOMAIN users :
          /\ users'[id].trustScore >= users[id].trustScore
          /\ users'[id].trustLevel >= users[id].trustLevel]_vars

\* after extends before by entries that all belong to the user
ExtendsFor(after, before, userId) ==
    /\ Len(after) >= Len(before)
    /\ \A i \in DOMAIN before : after[i] = before[i]
    /\ \A i \in DOMAIN after \ DOMAIN before : after[i].userId = userId

\* an update leaves everything but the targeted verification and its owner
UpdateFrameOutside(id, owner) ==
    /\ DOMAIN verificationMethods' = DOMAIN verificationMethods
    /\ \A other \in DOMAIN verificationMethods \ {id} :
          verificationMethods'[other] = verificationMethods[other]
    /\ DOMAIN users' = DOMAIN users
    /\ \A u \in DOMAIN users :
          /\ DOMAIN users'[u] = DOMAIN users[u]
          /\ \A f \in DOMAIN users[u] :
                (u # owner \/ f \notin {"trustScore", "trustLevel"})
                   => users'[u][f] = users[u][f]
    /\ ExtendsFor(userBadges', userBadges, owner)
    /\ ExtendsFor(activityLogs', activityLogs, owner)
    /\ identityShares' = identityShares

\* C30: an update as the PUT route passes it changes only the targeted
\* verification's status, data and completedAt, the owner's trustScore and
\* trustLevel, the owner's UserBadges and the owner's activity log; the
\* verification's other fields, every other verification, every other user
\* and every identity share are unchanged.
C30_UpdateFrame ==
    [][(lastOp'.op = "updateVerificationMethod" /\ lastOp'.ret = "ok") =>
          LET id == lastOp'.id
              method == verificationMethods[id]
          IN  /\ UpdateFrameOutside(id, method.userId)
              /\ DOMAIN verificationMethods'[id] = DOMAIN method
              /\ \A f \in DOMAIN method \ {"status", "data", "completedAt"} :
                    verificationMethods'[id][f] = method[f]]_vars

====
